---- MODULE Spec2Model ----
(***************************************************************************)
(* Model of main.py: a menu-driven generator/decoder of QR, DataMatrix,    *)
(* Code128, Code39 and PDF417 code images.                                 *)
(*                                                                         *)
(* Text (payloads) is a sequence of code points, a path is a sequence of   *)
(* one-character strings, the file system is a function from the existing *)
(* paths to image files.  The third-party encoders and decoders are black  *)
(* boxes: an encoder puts the bytes of its input into an image of its own  *)
(* symbology or raises, a decoder returns the symbols it recognises or     *)
(* raises.                                                                 *)
(***************************************************************************)
EXTENDS Integers, Sequences, FiniteSets, TLC

\* ------------------------------------------------------------------------
\* Bounds and input alphabets

MaxLen == 3
MaxPayload == 2

\* 'A', DEL (last ASCII), U+0080 (first non-ASCII), Cyrillic 'Ж' and 'П'
Chars == {65, 127, 128, 1046, 1055}

RECURSIVE TextsOfLen(_, _)
TextsOfLen(chars, n) ==
    IF n = 0 THEN {<<>>}
    ELSE {<<c>> \o t : c \in chars, t \in TextsOfLen(chars, n - 1)}

Texts == UNION {TextsOfLen(Chars, n) : n \in 0..MaxLen}

\* ------------------------------------------------------------------------
\* Transliteration helper

\* transliterate.translit(text, 'ru', reversed=True): Cyrillic letters are
\* replaced by their Latin spelling, every other character passes through.
RuReversed(c) ==
    CASE c = 1046 -> <<90, 104>>
      [] c = 1055 -> <<80>>
      [] OTHER    -> <<c>>

RECURSIVE translit(_)
translit(text) ==
    IF text = <<>> THEN <<>>
    ELSE RuReversed(Head(text)) \o translit(Tail(text))

ASCII_LIMIT == 128

\* any(ord(c) > 128 for c in text)
NeedsTranslit(text) == \E i \in 1..Len(text) : text[i] > ASCII_LIMIT

transliterate_text(text) ==
    IF NeedsTranslit(text) THEN translit(text) ELSE text

IsAscii(text) == \A i \in 1..Len(text) : text[i] <= 127

\* ------------------------------------------------------------------------
\* Python values handed to the encoders (str, int, library constant)

PyStr(s) == [t |-> "str", i |-> 0, s |-> s]
PyInt(n) == [t |-> "int", i |-> n, s |-> ""]
PyNone == [t |-> "none", i |-> 0, s |-> ""]
ERROR_CORRECT_M == [t |-> "const", i |-> 0, s |-> "ERROR_CORRECT_M"]
ERROR_LEVEL_DEFAULT == PyInt(2)

\* kwargs is a set of [key, val] pairs with distinct keys
KwGet(kwargs, key, default) ==
    IF \E kv \in kwargs : kv.key = key
    THEN (CHOOSE kv \in kwargs : kv.key = key).val
    ELSE default

\* str.lower() on the format strings the model uses
Lower(s) ==
    CASE s = "JPG" -> "jpg"
      [] s = "PNG" -> "png"
      [] OTHER     -> s

\* ------------------------------------------------------------------------
\* Bytes: str.encode('utf-8') and bytes.decode('utf-8'), code points < 2048

Utf8Char(c) ==
    IF c < 128 THEN <<c>> ELSE <<192 + (c \div 64), 128 + (c % 64)>>

RECURSIVE Utf8Encode(_)
Utf8Encode(text) ==
    IF text = <<>> THEN <<>>
    ELSE Utf8Char(Head(text)) \o Utf8Encode(Tail(text))

RECURSIVE Utf8Decode(_)
Utf8Decode(bytes) ==
    IF bytes = <<>> THEN <<>>
    ELSE IF bytes[1] < 128 THEN <<bytes[1]>> \o Utf8Decode(Tail(bytes))
    ELSE <<(bytes[1] - 192) * 64 + (bytes[2] - 128)>>
             \o Utf8Decode(Tail(Tail(bytes)))

\* ------------------------------------------------------------------------
\* Paths and the file system

DOT_PNG == <<".", "p", "n", "g">>
DOT_JPG == <<".", "j", "p", "g">>

EndsWith(s, suf) ==
    /\ Len(s) >= Len(suf)
    /\ SubSeq(s, Len(s) - Len(suf) + 1, Len(s)) = suf

\* file_path[:-4]
DropLast4(s) == IF Len(s) >= 4 THEN SubSeq(s, 1, Len(s) - 4) ELSE <<>>

NoFiles == [p \in {} |-> [fmt |-> "PNG", kind |-> "blank", data |-> <<>>]]

Image(kind, bytes, fmt) == [fmt |-> fmt, kind |-> kind, data |-> bytes]

Write(files, path, file) ==
    [p \in DOMAIN files \cup {path} |-> IF p = path THEN file ELSE files[p]]

\* a copy in place of the move: the source stays
RenameKeepsSource(files, src, dst) == Write(files, dst, files[src])

\* os.rename(src, dst) with src existing (POSIX: dst is replaced)
Rename(files, src, dst) ==
    IF src = dst THEN files
    ELSE [p \in (DOMAIN files \ {src}) \cup {dst} |->
             IF p = dst THEN files[src] ELSE files[p]]

\* os.path.exists
Exists(files, path) == path \in DOMAIN files

\* Image.open succeeds on an existing file that holds an image
CanOpen(files, path) == Exists(files, path) /\ files[path].kind # "corrupt"

FsOp(op, src, dst, fmt) == [op |-> op, src |-> src, dst |-> dst, fmt |-> fmt]
\* ------------------------------------------------------------------------
\* External encoders and decoders

Symbologies == {"qr", "datamatrix", "code128", "code39", "pdf417"}

\* pyzbar recognises the linear codes and QR, pylibdmtx DataMatrix only,
\* zxing all five; a decoder returns the list of the symbols' data
ZbarKinds == {"qr", "code128", "code39"}
DmtxKinds == {"datamatrix"}
ZxingKinds == Symbologies

zbar_decode(image) ==
    IF image.kind \in ZbarKinds THEN <<image.data>> ELSE <<>>

dmtx_decode(image) ==
    IF image.kind \in DmtxKinds THEN <<image.data>> ELSE <<>>

zxing_decode(image) ==
    IF image.kind \in ZxingKinds THEN <<image.data>> ELSE <<>>

\* ------------------------------------------------------------------------
\* generate: the result of one call.  fail names the place where the
\* external code raises: "none", "encode" (the encoder rejects its input)
\* or "io" (writing or renaming the file fails).

GenResult(exc, files, ops, encArg) ==
    [exc |-> exc, fs |-> files, ops |-> ops, encArg |-> encArg]

\* if file_format.lower() == "jpg": JPEG else: PNG
RasterOf(file_format) == IF Lower(file_format) = "jpg" THEN "JPEG" ELSE "PNG"

\* img.save(file_path, "JPEG" | "PNG") of the two-dimensional adapters
SaveImage(kind, bytes, file_path, file_format, files, fail, encArg) ==
    IF fail # "none" THEN GenResult(TRUE, files, <<>>, encArg)
    ELSE GenResult(FALSE,
                   Write(files, file_path,
                         Image(kind, bytes, RasterOf(file_format))),
                   <<FsOp("save", file_path, file_path, RasterOf(file_format))>>,
                   encArg)

QRCodeGenerator_generate(data, file_path, file_format, kwargs, files, fail) ==
    LET text == transliterate_text(data)
        ec == KwGet(kwargs, "error_correction", ERROR_CORRECT_M)
    IN SaveImage("qr", Utf8Encode(text), file_path, file_format, files, fail, ec)

DataMatrixGenerator_generate(data, file_path, file_format, kwargs, files, fail) ==
    LET text == transliterate_text(data)
    IN SaveImage("datamatrix", Utf8Encode(text), file_path, file_format,
                 files, fail, PyNone)

PDF417Generator_generate(data, file_path, file_format, kwargs, files, fail) ==
    LET text == transliterate_text(data)
        level == KwGet(kwargs, "error_level", ERROR_LEVEL_DEFAULT)
    IN SaveImage("pdf417", Utf8Encode(text), file_path, file_format,
                 files, fail, level)

\* bar_code.save(file_path[:-4]): ImageWriter writes "<name>.png"
LibraryPath(file_path) == DropLast4(file_path) \o DOT_PNG

\* The source of os.rename(file_path[:-4] + '.png', file_path)
RenameSource(file_path) == DropLast4(file_path) \o DOT_PNG

\* Code128Generator.generate and Code39Generator.generate: the library
\* writes the intermediate PNG, os.rename moves it to file_path, and for
\* jpg the file is reopened and saved again as JPEG.
LinearGenerate(kind, data, file_path, file_format, files, fail) ==
    LET text == transliterate_text(data)
        inter == LibraryPath(file_path)
        src == RenameSource(file_path)
        written == Write(files, inter, Image(kind, Utf8Encode(text), "PNG"))
        renamed == Rename(written, src, file_path)
        wrOp == FsOp("write", inter, inter, "PNG")
        mvOp == FsOp("rename", src, file_path, "PNG")
    IN IF fail = "encode" THEN GenResult(TRUE, files, <<>>, PyNone)
       ELSE IF fail = "io" \/ ~Exists(written, src)
       THEN GenResult(TRUE, written, <<wrOp>>, PyNone)
       ELSE IF Lower(file_format) = "jpg"
       THEN GenResult(FALSE,
                      Write(renamed, file_path,
                            [renamed[file_path] EXCEPT !.fmt = "JPEG"]),
                      <<wrOp, mvOp, FsOp("save", file_path, file_path, "JPEG")>>,
                      PyNone)
       ELSE GenResult(FALSE, renamed, <<wrOp, mvOp>>, PyNone)

Code128Generator_generate(data, file_path, file_format, kwargs, files, fail) ==
    LinearGenerate("code128", data, file_path, file_format, files, fail)

Code39Generator_generate(data, file_path, file_format, kwargs, files, fail) ==
    LinearGenerate("code39", data, file_path, file_format, files, fail)

\* generator.generate(...) on the adapter of class cls
Generate(cls, data, file_path, file_format, kwargs, files, fail) ==
    CASE cls = "qr" ->
           QRCodeGenerator_generate(data, file_path, file_format, kwargs, files, fail)
      [] cls = "datamatrix" ->
           DataMatrixGenerator_generate(data, file_path, file_format, kwargs, files, fail)
      [] cls = "code128" ->
           Code128Generator_generate(data, file_path, file_format, kwargs, files, fail)
      [] cls = "code39" ->
           Code39Generator_generate(data, file_path, file_format, kwargs, files, fail)
      [] cls = "pdf417" ->
           PDF417Generator_generate(data, file_path, file_format, kwargs, files, fail)

\* ------------------------------------------------------------------------
\* decode: Optional[str] is [none, str]; fault says the external decoder
\* raises on this call.

None == [none |-> TRUE, str |-> <<>>]
Some(text) == [none |-> FALSE, str |-> text]

DecResult(exc, value, msgs) == [exc |-> exc, value |-> value, msgs |-> msgs]

\* results[0].data.decode() if results else None
FirstOrNone(results) ==
    IF results # <<>> THEN Some(Utf8Decode(results[1])) ELSE None

\* results[0] read without the emptiness test: IndexError on no result
QRCodeGenerator_decode_unguarded(file_path, files, fault) ==
    IF ~CanOpen(files, file_path) \/ fault THEN DecResult(TRUE, None, <<>>)
    ELSE IF zbar_decode(files[file_path]) = <<>> THEN DecResult(TRUE, None, <<>>)
    ELSE DecResult(FALSE, FirstOrNone(zbar_decode(files[file_path])), <<>>)

QRCodeGenerator_decode(file_path, files, fault) ==
    IF ~CanOpen(files, file_path) \/ fault THEN DecResult(TRUE, None, <<>>)
    ELSE DecResult(FALSE, FirstOrNone(zbar_decode(files[file_path])), <<>>)

DataMatrixGenerator_decode(file_path, files, fault) ==
    IF ~CanOpen(files, file_path) \/ fault THEN DecResult(TRUE, None, <<>>)
    ELSE DecResult(FALSE, FirstOrNone(dmtx_decode(files[file_path])), <<>>)

Code128Generator_decode(file_path, files, fault) ==
    IF ~CanOpen(files, file_path) \/ fault THEN DecResult(TRUE, None, <<>>)
    ELSE DecResult(FALSE, FirstOrNone(zbar_decode(files[file_path])), <<>>)

Code39Generator_decode_dmtx(file_path, files, fault) ==
    IF ~CanOpen(files, file_path) \/ fault THEN DecResult(TRUE, None, <<>>)
    ELSE DecResult(FALSE, FirstOrNone(dmtx_decode(files[file_path])), <<>>)

Code39Generator_decode(file_path, files, fault) ==
    IF ~CanOpen(files, file_path) \/ fault THEN DecResult(TRUE, None, <<>>)
    ELSE DecResult(FALSE, FirstOrNone(zbar_decode(files[file_path])), <<>>)

PDF417Propagates == FALSE

\* try: ... except Exception as e: print(...); return None
PDF417Catches == TRUE

PDF417Generator_decode(file_path, files, fault) ==
    IF ~CanOpen(files, file_path) \/ fault
    THEN IF PDF417Catches
         THEN DecResult(FALSE, None, <<"pdf417_error">>)
         ELSE DecResult(TRUE, None, <<>>)
    ELSE LET barcode == zxing_decode(files[file_path])
         IN IF barcode # <<>>
            THEN DecResult(FALSE, Some(Utf8Decode(barcode[1])), <<>>)
            ELSE DecResult(FALSE, None, <<"pdf417_unrecognised">>)

\* generator.decode(file_path) on the adapter of class cls
Decode(cls, file_path, files, fault) ==
    CASE cls = "qr" -> QRCodeGenerator_decode(file_path, files, fault)
      [] cls = "datamatrix" -> DataMatrixGenerator_decode(file_path, files, fault)
      [] cls = "code128" -> Code128Generator_decode(file_path, files, fault)
      [] cls = "code39" -> Code39Generator_decode(file_path, files, fault)
      [] cls = "pdf417" -> PDF417Generator_decode(file_path, files, fault)

\* Python truthiness of an Optional[str]: None and "" are falsy
Truthy(value) == ~value.none /\ value.str # <<>>
\* ------------------------------------------------------------------------
\* State

VARIABLES
    pc,           \* main: the prompt the loop waits at
    family,       \* display_menu: code_type, the entry at the family prompt
    sel,          \* display_menu: linear_type / dim_type
    code_type,    \* main: what display_menu returned
    mode,         \* main: mode
    file_format,  \* main: file_format
    generator,    \* main: class of the adapter instantiated
    data,         \* main: data
    entered,      \* main: the path as typed, before the extension is added
    file_path,    \* main: file_path
    ec,           \* main: error_correction
    fs,           \* the file system
    out,          \* console messages printed by the last step
    ret,          \* the adapter call made by the last step of main
    hpc,          \* adapter calls made directly: position
    gen,          \* adapter calls made directly: the generate call
    dec,          \* adapter calls made directly: the decode call
    tpc,          \* transliterate_text called directly: position
    text,         \* transliterate_text called directly: argument
    tres,         \* transliterate_text called directly: result
    tused         \* transliterate_text called directly: translit was applied

menuVars == <<pc, family, sel, code_type, mode, file_format, generator, data,
              entered, file_path, ec, out, ret>>
harnessVars == <<hpc, gen, dec>>
translitVars == <<tpc, text, tres, tused>>
vars == <<menuVars, fs, harnessVars, translitVars>>

Unset == "unset"
NoPath == <<>>

NoCall == [op |-> "none", cls |-> Unset, exc |-> FALSE, value |-> None,
           encArg |-> PyNone, ops |-> <<>>, fault |-> FALSE]

\* ------------------------------------------------------------------------
\* Inputs

MenuChoices == {"1", "2", "3", ""}
FormatEntries == {"png", "jpg", "JPG", "gif"}
MenuPayloads == {<<65>>, <<1055>>}
EcEntries == {"", "H"}
FailPoints == {"none", "encode", "io"}

PathO == <<"o">>
PathOPng == <<"o">> \o DOT_PNG
PathOJpg == <<"o">> \o DOT_JPG
PathBlank == <<"b">>
PathCorrupt == <<"c">>
PathMissing == <<"n">>

DestEntries == {PathO, PathOPng, PathOJpg}
SourceEntries == {PathOPng, PathOJpg, PathBlank, PathCorrupt, PathMissing}

BlankImage == Image("blank", <<>>, "PNG")
CorruptFile == Image("corrupt", <<>>, "PNG")

MenuFiles == Write(Write(NoFiles, PathBlank, BlankImage), PathCorrupt, CorruptFile)

MenuInit ==
    /\ pc = "family"
    /\ family = Unset /\ sel = Unset /\ code_type = Unset /\ mode = Unset
    /\ file_format = Unset /\ generator = Unset /\ data = <<>>
    /\ entered = NoPath /\ file_path = NoPath /\ ec = Unset
    /\ out = <<>>
    /\ ret = NoCall

NoGen == [cls |-> Unset, data |-> <<>>, path |-> NoPath, fmt |-> Unset,
          kwargs |-> {}, fail |-> "none", res |-> GenResult(FALSE, NoFiles, <<>>, PyNone)]
NoDec == [cls |-> Unset, path |-> NoPath, fault |-> FALSE,
          res |-> DecResult(FALSE, None, <<>>)]

HarnessIdle == hpc = "idle" /\ gen = NoGen /\ dec = NoDec
TranslitIdle == tpc = "idle" /\ text = <<>> /\ tres = <<>> /\ tused = FALSE

\* ------------------------------------------------------------------------
\* display_menu

\* A new pass of main's while loop: the locals of the previous pass are
\* dead (each is assigned before it is read again).
FamilyInput(c) ==
    /\ pc = "family"
    /\ family' = c
    /\ sel' = Unset /\ code_type' = Unset /\ mode' = Unset
    /\ file_format' = Unset /\ generator' = Unset /\ data' = <<>>
    /\ entered' = NoPath /\ file_path' = NoPath /\ ec' = Unset
    /\ ret' = NoCall
    /\ IF c = "1" THEN pc' = "linear" /\ out' = <<>>
       ELSE IF c = "2" THEN pc' = "dim" /\ out' = <<>>
       ELSE pc' = "family" /\ out' = <<"invalid">>
    /\ UNCHANGED <<fs, harnessVars, translitVars>>

\* return "code128" if linear_type == "1" else "code39"
LinearChoice(c) == IF c = "1" THEN "code128" ELSE "code39"

LinearInput(c) ==
    /\ pc = "linear"
    /\ sel' = c
    /\ code_type' = LinearChoice(c)
    /\ pc' = "mode"
    /\ out' = <<>>
    /\ UNCHANGED <<family, mode, file_format, generator, data, entered,
                   file_path, ec, ret, fs, harnessVars, translitVars>>

DimChoice(c) ==
    CASE c = "1" -> "qr"
      [] c = "2" -> "datamatrix"
      [] c = "3" -> "pdf417"
      [] OTHER   -> Unset

DimInput(c) ==
    /\ pc = "dim"
    /\ sel' = c
    /\ IF DimChoice(c) # Unset
       THEN code_type' = DimChoice(c) /\ pc' = "mode" /\ out' = <<>>
       ELSE code_type' = Unset /\ pc' = "family" /\ out' = <<"invalid">>
    /\ UNCHANGED <<family, mode, file_format, generator, data, entered,
                   file_path, ec, ret, fs, harnessVars, translitVars>>

\* ------------------------------------------------------------------------
\* main

ModeInput(m) ==
    /\ pc = "mode"
    /\ mode' = m
    /\ IF m \notin {"1", "2"}
       THEN pc' = "family" /\ out' = <<"invalid">>
       ELSE pc' = "format" /\ out' = <<>>
    /\ UNCHANGED <<family, sel, code_type, file_format, generator, data,
                   entered, file_path, ec, ret, fs, harnessVars, translitVars>>

\* if code_type == "qr": generator = QRCodeGenerator() elif ... else: continue
AdapterFor(ct) == IF ct \in Symbologies THEN ct ELSE Unset

FormatInput(f) ==
    /\ pc = "format"
    /\ file_format' = Lower(f)
    /\ generator' = AdapterFor(code_type)
    /\ IF AdapterFor(code_type) = Unset
       THEN pc' = "family" /\ out' = <<"unsupported">>
       ELSE /\ pc' = IF mode = "1" THEN "data" ELSE "src"
            /\ out' = <<>>
    /\ UNCHANGED <<family, sel, code_type, mode, data, entered, file_path,
                   ec, ret, fs, harnessVars, translitVars>>

DataInput(d) ==
    /\ pc = "data"
    /\ data' = d
    /\ pc' = "path"
    /\ out' = <<>>
    /\ UNCHANGED <<family, sel, code_type, mode, file_format, generator,
                   entered, file_path, ec, ret, fs, harnessVars, translitVars>>

\* if not file_path.endswith(".png") and not file_path.endswith(".jpg"):
\*     file_path = file_path + (".jpg" if file_format == "jpg" else ".png")
WithExtension(path, fmt) ==
    IF ~EndsWith(path, DOT_PNG) /\ ~EndsWith(path, DOT_JPG)
    THEN path \o (IF fmt = "jpg" THEN DOT_JPG ELSE DOT_PNG)
    ELSE path

PathInput(p) ==
    /\ pc = "path"
    /\ entered' = p
    /\ file_path' = WithExtension(p, file_format)
    /\ pc' = "ec"
    /\ out' = <<>>
    /\ UNCHANGED <<family, sel, code_type, mode, file_format, generator,
                   data, ec, ret, fs, harnessVars, translitVars>>

\* generator.generate(data, file_path, file_format, error_correction=...)
MenuKwargs(e) == {[key |-> "error_correction", val |-> PyStr(e)]}

DecodeNotCaught == FALSE

\* except Exception as e: print(f"Ошибка: {e}")
GenerateCaught == TRUE
DecodeCaught == TRUE

EcInput(e, fail) ==
    /\ pc = "ec"
    /\ ec' = e
    /\ LET r == Generate(generator, data, file_path, file_format,
                         MenuKwargs(e), fs, fail)
       IN /\ fs' = r.fs
          /\ ret' = [op |-> "generate", cls |-> generator, exc |-> r.exc,
                     value |-> None, encArg |-> r.encArg, ops |-> r.ops,
                     fault |-> (fail # "none")]
          /\ IF ~r.exc THEN pc' = "family" /\ out' = <<"saved">>
             ELSE IF GenerateCaught THEN pc' = "family" /\ out' = <<"error">>
             ELSE pc' = "crashed" /\ out' = <<>>
    /\ UNCHANGED <<family, sel, code_type, mode, file_format, generator,
                   data, entered, file_path, harnessVars, translitVars>>

SourceNeverMissing(files, p) == FALSE

\* if not os.path.exists(file_path): print(...); continue
SourceMissing(files, p) == ~Exists(files, p)

SrcInput(p, fault) ==
    /\ pc = "src"
    /\ file_path' = p
    /\ IF SourceMissing(fs, p)
       THEN pc' = "family" /\ out' = <<"notfound">> /\ ret' = NoCall
       ELSE LET r == Decode(generator, p, fs, fault)
            IN /\ ret' = [op |-> "decode", cls |-> generator, exc |-> r.exc,
                          value |-> r.value, encArg |-> PyNone, ops |-> <<>>,
                          fault |-> fault]
               /\ IF ~r.exc
                  THEN /\ pc' = "family"
                       /\ out' = r.msgs \o (IF Truthy(r.value)
                                            THEN <<"decoded">>
                                            ELSE <<"undecoded">>)
                  ELSE IF DecodeCaught
                  THEN pc' = "family" /\ out' = r.msgs \o <<"error">>
                  ELSE pc' = "crashed" /\ out' = r.msgs
    /\ UNCHANGED <<family, sel, code_type, mode, file_format, generator,
                   data, entered, ec, fs, harnessVars, translitVars>>

Init == MenuInit /\ fs = MenuFiles /\ HarnessIdle /\ TranslitIdle

Next ==
    \/ pc = "family" /\ \E c \in MenuChoices : FamilyInput(c)
    \/ pc = "linear" /\ \E c \in MenuChoices : LinearInput(c)
    \/ pc = "dim" /\ \E c \in MenuChoices : DimInput(c)
    \/ pc = "mode" /\ \E m \in MenuChoices : ModeInput(m)
    \/ pc = "format" /\ \E f \in FormatEntries : FormatInput(f)
    \/ pc = "data" /\ \E d \in MenuPayloads : DataInput(d)
    \/ pc = "path" /\ \E p \in DestEntries : PathInput(p)
    \/ pc = "ec" /\ \E e \in EcEntries, fail \in FailPoints : EcInput(e, fail)
    \/ pc = "src" /\ \E p \in SourceEntries, fault \in BOOLEAN : SrcInput(p, fault)

Spec == Init /\ [][Next]_vars
\* ------------------------------------------------------------------------
\* The adapters called directly: one generate, then one decode, from any of
\* a few initial file systems.

FourVariants == {"qr", "datamatrix", "code128", "code39"}

AdapterChars == {65, 127, 128, 1055}
AdapterPayloads == UNION {TextsOfLen(AdapterChars, n) : n \in 0..MaxPayload}
AdapterFormats == {"png", "jpg", "JPG"}
AdapterPaths == {PathO, PathOPng, PathOJpg}
AdapterSources == AdapterPaths \cup {DOT_PNG, PathMissing}
AdapterKwargs == { {}, {[key |-> "error_correction", val |-> PyStr("H")]} }

AdapterFiles ==
    { NoFiles,
      Write(Write(NoFiles, PathOPng, BlankImage), PathO, CorruptFile),
      Write(Write(NoFiles, PathOJpg, Image("code128", <<66>>, "JPEG")),
            DOT_PNG, Image("datamatrix", <<67>>, "PNG")) }

CallGenerate(cls, d, p, f, kw, fail) ==
    /\ hpc = "start"
    /\ LET r == Generate(cls, d, p, f, kw, fs, fail)
       IN /\ gen' = [cls |-> cls, data |-> d, path |-> p, fmt |-> f,
                     kwargs |-> kw, fail |-> fail, res |-> r]
          /\ fs' = r.fs
    /\ hpc' = "generated"
    /\ UNCHANGED <<menuVars, dec, translitVars>>

CallDecode(cls, p, fault) ==
    /\ hpc \in {"start", "generated"}
    /\ dec' = [cls |-> cls, path |-> p, fault |-> fault,
               res |-> Decode(cls, p, fs, fault)]
    /\ hpc' = "decoded"
    /\ UNCHANGED <<menuVars, fs, gen, translitVars>>

AdapterInit ==
    /\ MenuInit /\ TranslitIdle
    /\ fs \in AdapterFiles
    /\ hpc = "start" /\ gen = NoGen /\ dec = NoDec

AdapterNext ==
    \/ /\ hpc = "start"
       /\ \E cls \in Symbologies, d \in AdapterPayloads, p \in AdapterPaths,
             f \in AdapterFormats, kw \in AdapterKwargs, fail \in FailPoints :
             CallGenerate(cls, d, p, f, kw, fail)
    \/ /\ hpc # "decoded"
       /\ \E cls \in Symbologies, p \in AdapterSources, fault \in BOOLEAN :
             CallDecode(cls, p, fault)

SpecAdapter == AdapterInit /\ [][AdapterNext]_vars

\* ------------------------------------------------------------------------
\* transliterate_text called directly on every text up to MaxLen

CallTransliterate ==
    /\ tpc = "start"
    /\ tres' = transliterate_text(text)
    /\ tused' = NeedsTranslit(text)
    /\ tpc' = "done"
    /\ UNCHANGED <<menuVars, fs, harnessVars, text>>

TranslitInit ==
    /\ MenuInit /\ fs = NoFiles /\ HarnessIdle
    /\ tpc = "start" /\ text \in Texts /\ tres = <<>> /\ tused = FALSE

TranslitNext == CallTransliterate

SpecTranslit == TranslitInit /\ [][TranslitNext]_vars
\* ------------------------------------------------------------------------
\* Properties

\* The state right after an encode pass called generate
AfterGenerate == ret.op = "generate"
\* The state right after a decode pass read the source path
AfterSourcePrompt == pc # "src" /\ mode = "2" /\ file_path # NoPath

C3_MissingSource ==
    (AfterSourcePrompt /\ file_path \notin DOMAIN fs)
    => /\ out = <<"notfound">>
       /\ ret = NoCall
       /\ pc = "family"

C3_Witness ==
    /\ AfterSourcePrompt
    /\ file_path = PathMissing
    /\ generator = "pdf417"
    /\ out = <<"notfound">>
    /\ pc = "family"

\* C4: an exception of generate or decode is caught in main and reported,
\* and the loop starts a new pass; the loop never reaches a terminal state;
\* "code saved" is printed only when generate returned without raising.
C4_ErrorsCaught ==
    /\ pc \in {"family", "linear", "dim", "mode", "format", "data", "path",
               "ec", "src"}
    /\ ENABLED Next
    /\ ret.exc => /\ pc = "family"
                  /\ out # <<>> /\ out[Len(out)] = "error"
    /\ (\E i \in 1..Len(out) : out[i] = "saved")
           => (ret.op = "generate" /\ ~ret.exc)

C4_Witness ==
    /\ ret.op = "decode" /\ ret.exc /\ ret.cls = "datamatrix"
    /\ pc = "family"
    /\ out = <<"error">>

\* What the external decoder of an adapter class recognises in an image
Recognised(cls, image) ==
    CASE cls = "datamatrix" -> dmtx_decode(image)
      [] cls = "pdf417"     -> zxing_decode(image)
      [] OTHER              -> zbar_decode(image)

\* C5: when the external decoder recognises nothing, decode returns None
\* without raising, otherwise the first result; in the menu None is reported
\* as "could not decode", not as an error.
C5_Absence ==
    (ret.op = "decode" /\ CanOpen(fs, file_path) /\ ~ret.fault)
    => LET results == Recognised(ret.cls, fs[file_path])
       IN /\ ~ret.exc
          /\ results = <<>> =>
                /\ ret.value = None
                /\ out[Len(out)] = "undecoded"
                /\ \A i \in 1..Len(out) : out[i] # "error"
          /\ results # <<>> => ret.value = Some(Utf8Decode(results[1]))

C5_Witness ==
    /\ ret.op = "decode" /\ ret.cls = "qr"
    /\ file_path = PathBlank
    /\ ret.value = None /\ ~ret.exc
    /\ out = <<"undecoded">>

\* C6: PDF417Generator.decode never propagates an exception (it prints a
\* diagnostic and returns None); the decode of the other four variants
\* propagates an exception raised while opening or decoding the image.
C6_Asymmetric ==
    hpc = "decoded" =>
        LET raises == dec.fault \/ ~CanOpen(fs, dec.path)
        IN /\ dec.cls = "pdf417" =>
                 /\ ~dec.res.exc
                 /\ raises => /\ dec.res.value = None
                              /\ dec.res.msgs = <<"pdf417_error">>
           /\ dec.cls \in FourVariants => (dec.res.exc <=> raises)

C6_Witness ==
    /\ hpc = "decoded"
    /\ dec.cls = "pdf417" /\ dec.fault
    /\ ~dec.res.exc /\ dec.res.value = None

\* The default of the encoder option of a variant
DefaultLevel(cls) == IF cls = "qr" THEN ERROR_CORRECT_M ELSE ERROR_LEVEL_DEFAULT

\* C7: in an encode pass the entered error-correction value reaches the
\* encoder of QR and PDF417, and an empty entry gives the variant's default.
C7_Claim ==
    (AfterGenerate /\ ret.cls \in {"qr", "pdf417"})
    => ret.encArg = IF ec = "" THEN DefaultLevel(ret.cls) ELSE PyStr(ec)

ExtensionMatches(path, fmt) ==
    \/ EndsWith(path, DOT_PNG) /\ fmt = "PNG"
    \/ EndsWith(path, DOT_JPG) /\ fmt = "JPEG"

\* C8: after an encode pass the extension of the written file matches the
\* raster format of its content, whatever path and format were entered.
C8_Claim ==
    (AfterGenerate /\ ~ret.exc)
    => /\ file_path \in DOMAIN fs
       /\ ExtensionMatches(file_path, fs[file_path].fmt)

\* C9: a successful generate of Code128 or Code39 on a menu path writes
\* "<path[:-4]>.png", renames it to the path and, only for jpg, saves the
\* path again as JPEG; then the path holds the image in the chosen format
\* and the intermediate file is gone unless it is the path itself.
C9_LinearSteps ==
    (AfterGenerate /\ ~ret.exc /\ ret.cls \in {"code128", "code39"})
    => LET inter == DropLast4(file_path) \o DOT_PNG
           raster == IF file_format = "jpg" THEN "JPEG" ELSE "PNG"
       IN /\ EndsWith(file_path, DOT_PNG) \/ EndsWith(file_path, DOT_JPG)
          /\ ret.ops = <<FsOp("write", inter, inter, "PNG"),
                         FsOp("rename", inter, file_path, "PNG")>>
                       \o (IF file_format = "jpg"
                           THEN <<FsOp("save", file_path, file_path, "JPEG")>>
                           ELSE <<>>)
          /\ file_path \in DOMAIN fs
          /\ fs[file_path] = Image(ret.cls, Utf8Encode(transliterate_text(data)),
                                   raster)
          /\ inter # file_path => inter \notin DOMAIN fs

C9_Witness ==
    /\ AfterGenerate /\ ~ret.exc /\ ret.cls = "code128"
    /\ file_format = "jpg" /\ file_path = PathOJpg
    /\ Len(ret.ops) = 3
    /\ fs[PathOJpg].fmt = "JPEG"
    /\ PathOPng \notin DOMAIN fs

MenuTable ==
    { <<"1", "1", "code128">>, <<"1", "2", "code39">>,
      <<"2", "1", "qr">>, <<"2", "2", "datamatrix">>, <<"2", "3", "pdf417">> }

\* C10: display_menu returns a symbology only for that symbology's own
\* menu number, any other entry prints the invalid-choice message and
\* prompts again; main's "unsupported code type" branch is never taken.
C10_Claim ==
    /\ code_type # Unset => <<family, sel, code_type>> \in MenuTable
    /\ (family # Unset /\ code_type = Unset /\ pc = "family")
           => out = <<"invalid">>
    /\ out # <<"unsupported">>
====
